---- MODULE Spec2Model ----
(***************************************************************************)
(* Model of packages/messaging/src/helpers/registerDefaultSw.ts:           *)
(* registerDefaultSw(messaging) and waitForRegistrationActive(registration)*)
(* running on a single-threaded event loop against the host's service      *)
(* worker registration for DEFAULT_SW_SCOPE.                               *)
(*                                                                         *)
(* One action is one run-to-completion job of the event loop with the      *)
(* microtasks it queues: a call, a settlement of register() or update()    *)
(* with the continuation it wakes, a timer callback, a state-change event. *)
(***************************************************************************)
EXTENDS Naturals, Sequences, FiniteSets, TLC

(* ------------------------------ bounds --------------------------------- *)

\* number of invocations of registerDefaultSw on the one messaging context
NumCalls == 2

\* number of service workers the host ever installs for the scope
NumWorkers == 2

Calls == 1..NumCalls
Workers == 1..NumWorkers

\* "no invocation" / "no worker" (null or undefined in the source)
NoCall == 0
NoWorker == 0

(* ----------------------------- constants -------------------------------- *)

DEFAULT_REGISTRATION_TIMEOUT == 10000

\* the registration the host keeps for DEFAULT_SW_PATH / DEFAULT_SW_SCOPE
DefaultReg == "defaultRegistration"
\* a registration put on the messaging context by somebody else before
OtherReg == "otherRegistration"
Undefined == "undefined"

FAILED_DEFAULT_REGISTRATION == "FAILED_DEFAULT_REGISTRATION"

\* ServiceWorkerState of the host, plus "unused" for a worker not yet created
SwStates == {"installing", "installed", "activating", "activated", "redundant"}

(* ------------------------------ errors ---------------------------------- *)

\* a thrown or rejected value: an Error with a message, or the value undefined
ErrorOf(msg) == [defined |-> TRUE, message |-> msg]
UndefinedReason == [defined |-> FALSE, message |-> <<>>]
NoMessage == <<>>

\* mutant: the message does not carry the duration
TimeoutMessageNoDuration == <<"Service worker not registered">>

\* `Service worker not registered after ${DEFAULT_REGISTRATION_TIMEOUT} ms`
TimeoutMessage ==
  <<"Service worker not registered after ", ToString(DEFAULT_REGISTRATION_TIMEOUT), " ms">>

NoIncomingMessage == <<"No incoming service worker found.">>

\* what navigator.serviceWorker.register() may reject with
RegisterMessage == <<"Failed to register a ServiceWorker">>
RegisterRejections == {ErrorOf(RegisterMessage), UndefinedReason}

\* what swRegistration.update() may reject with
UpdateMessage == <<"Failed to update a ServiceWorker">>

\* (e as Error)?.message
MessageOf(e) == IF e.defined THEN e.message ELSE NoMessage

\* ERROR_FACTORY.create(ErrorCode.FAILED_DEFAULT_REGISTRATION, { browserErrorMessage })
CreateError(code, msg) == [state |-> "rejected", code |-> code, browserErrorMessage |-> msg]

\* mutant: the catch block rethrows what it caught
CatchBlockRethrow(e) == [state |-> "rejected", code |-> "", browserErrorMessage |-> MessageOf(e)]

\* the catch block of registerDefaultSw
CatchBlock(e) == CreateError(FAILED_DEFAULT_REGISTRATION, MessageOf(e))

Pending == [state |-> "pending", code |-> "", browserErrorMessage |-> NoMessage]
Resolved == [state |-> "resolved", code |-> "", browserErrorMessage |-> NoMessage]

(* ----------------------------- promises --------------------------------- *)

\* the promise created by waitForRegistrationActive
NoPromise == [state |-> "none", reason |-> UndefinedReason]
PendingPromise == [state |-> "pending", reason |-> UndefinedReason]

\* resolve(): settles a pending promise, no effect on a settled one
Resolve(p) ==
  IF p.state = "pending" THEN [state |-> "fulfilled", reason |-> UndefinedReason] ELSE p

\* reject(e): settles a pending promise, no effect on a settled one
Reject(p, e) ==
  IF p.state = "pending" THEN [state |-> "rejected", reason |-> e] ELSE p

\* mutant: the timer is not cancelled
ClearTimeoutNoop(t) == t

\* clearTimeout(rejectTimeout): cancels an armed timer, no effect otherwise
ClearTimeout(t) == IF t = "armed" THEN "cleared" ELSE t

(* ------------------------------ state ----------------------------------- *)

VARIABLES
  pc,             \* per call: "idle", "awaitRegister", "awaitActive", "done"
  result,         \* per call: the promise returned by registerDefaultSw
  swRegistration, \* messaging.swRegistration
  regActive,      \* registration.active
  regInstalling,  \* registration.installing
  regWaiting,     \* registration.waiting
  swState,        \* per worker: ServiceWorker.state ("unused" before it exists)
  onstatechange,  \* per worker: the call whose closure is the handler, or NoCall
  timer,          \* per call: rejectTimeout: "none", "armed", "fired", "cleared"
  prom,           \* per call: the promise of waitForRegistrationActive
  upd,            \* per call: the promise of update(): "none", "pending", "fulfilled", "rejected"
  log,            \* per call: the host and context operations it performed, in order
  registerOutcome, \* per call: how register() settled, with what it rejected with
  activeAtStart,  \* per call: registration.active was set when the wait began
  incomingSw,     \* per call: registration.installing || registration.waiting at wait start
  activatedAt,    \* per call: "beforeTimeout" once incomingSw reported 'activated' while
                  \* the timer of the call was armed, "never" until then
  resolveCalls,   \* per call: number of times resolve() was invoked
  rejectCalls     \* per call: number of times reject() was invoked

hostVars == <<regActive, regInstalling, regWaiting, swState>>
callVars == <<pc, result, swRegistration, timer, prom, upd, log, registerOutcome>>
histVars == <<activeAtStart, incomingSw, activatedAt, resolveCalls, rejectCalls>>
NotSettled == [state |-> "pending", reason |-> UndefinedReason]
vars == <<pc, result, swRegistration, regActive, regInstalling, regWaiting, swState,
          onstatechange, timer, prom, upd, log, registerOutcome, activeAtStart, incomingSw, activatedAt,
          resolveCalls, rejectCalls>>

Init ==
  /\ pc = [i \in Calls |-> "idle"]
  /\ result = [i \in Calls |-> Pending]
  /\ swRegistration \in {Undefined, OtherReg}
  /\ regActive = NoWorker
  /\ regInstalling = NoWorker
  /\ regWaiting = NoWorker
  /\ swState = [w \in Workers |-> "unused"]
  /\ onstatechange = [w \in Workers |-> NoCall]
  /\ timer = [i \in Calls |-> "none"]
  /\ prom = [i \in Calls |-> NoPromise]
  /\ upd = [i \in Calls |-> "none"]
  /\ log = [i \in Calls |-> <<>>]
  /\ registerOutcome = [i \in Calls |-> NotSettled]
  /\ activeAtStart = [i \in Calls |-> FALSE]
  /\ incomingSw = [i \in Calls |-> NoWorker]
  /\ activatedAt = [i \in Calls |-> "never"]
  /\ resolveCalls = [i \in Calls |-> 0]
  /\ rejectCalls = [i \in Calls |-> 0]

(* ------------------------- registerDefaultSw ---------------------------- *)

LogEntry(op, handle) == [op |-> op, on |-> handle]

\* registerDefaultSw(messaging) is called: it runs up to the first await,
\* navigator.serviceWorker.register(DEFAULT_SW_PATH, { scope: DEFAULT_SW_SCOPE }).
\* Calls are started in index order (they are interchangeable).
Call(i) ==
  /\ pc[i] = "idle"
  /\ \A j \in Calls : j < i => pc[j] # "idle"
  /\ pc' = [pc EXCEPT ![i] = "awaitRegister"]
  /\ log' = [log EXCEPT ![i] = Append(@, LogEntry("register", DefaultReg))]
  /\ UNCHANGED <<result, swRegistration, timer, prom, upd, registerOutcome, onstatechange>>
  /\ UNCHANGED hostVars
  /\ UNCHANGED histVars

\* mutant: the catch block also clears the stored handle
RegisterRejectsClearingHandle(i, e) ==
  /\ pc[i] = "awaitRegister"
  /\ pc' = [pc EXCEPT ![i] = "done"]
  /\ result' = [result EXCEPT ![i] = CatchBlock(e)]
  /\ registerOutcome' = [registerOutcome EXCEPT ![i] = [state |-> "rejected", reason |-> e]]
  /\ swRegistration' = Undefined
  /\ UNCHANGED <<timer, prom, upd, log, onstatechange>>
  /\ UNCHANGED hostVars
  /\ UNCHANGED histVars

\* register() rejects with e: the catch block wraps it and the call fails
RegisterRejects(i, e) ==
  /\ pc[i] = "awaitRegister"
  /\ pc' = [pc EXCEPT ![i] = "done"]
  /\ result' = [result EXCEPT ![i] = CatchBlock(e)]
  /\ registerOutcome' = [registerOutcome EXCEPT ![i] = [state |-> "rejected", reason |-> e]]
  /\ UNCHANGED <<swRegistration, timer, prom, upd, log, onstatechange>>
  /\ UNCHANGED hostVars
  /\ UNCHANGED histVars

\* mutant: the waiting worker takes precedence
IncomingOfWaitingFirst(installing, waiting) ==
  IF waiting # NoWorker THEN waiting ELSE installing

\* registration.installing || registration.waiting
IncomingOf(installing, waiting) == IF installing # NoWorker THEN installing ELSE waiting

\* mutant: incomingSw is tested before registration.active
WaitBranchIncomingFirst(active, incoming) ==
  IF incoming # NoWorker THEN "observe"
  ELSE IF active # NoWorker THEN "active"
  ELSE "none"

\* the branch waitForRegistrationActive takes: registration.active is tested
\* first, then incomingSw, else there is nothing to wait for
WaitBranch(active, incoming) ==
  IF active # NoWorker THEN "active"
  ELSE IF incoming # NoWorker THEN "observe"
  ELSE "none"

\* mutant: update() is requested on the context's handle before the new one is stored
AfterRegisterUpdateFirst(before, registration) ==
  <<LogEntry("update", before), LogEntry("store", registration), LogEntry("wait", registration)>>

\* the operations of the continuation after `await register()`, in program
\* order, each with the handle it acts on: the assignment to
\* messaging.swRegistration, then update() and waitForRegistrationActive(),
\* both reading messaging.swRegistration back after the assignment
AfterRegister(before, registration) ==
  LET stored == registration
  IN <<LogEntry("store", stored), LogEntry("update", stored), LogEntry("wait", stored)>>

\* the value of messaging.swRegistration after the operations in ops
StoredBy(before, ops) ==
  LET stores == SelectSeq(ops, LAMBDA en : en.op = "store")
  IN IF stores = <<>> THEN before ELSE stores[Len(stores)].on

\* `await waitForRegistrationActive(...)` on promise p: where the call is once
\* the job that settled p (or left it pending) has finished
AwaitPc(p) == IF p.state \in {"fulfilled", "rejected"} THEN "done" ELSE "awaitActive"

\* `await waitForRegistrationActive(...)` on promise p: the call returns when p
\* is fulfilled, a rejection goes through the catch block
AwaitResult(p) ==
  IF p.state = "fulfilled" THEN Resolved
  ELSE IF p.state = "rejected" THEN CatchBlock(p.reason)
  ELSE Pending

\* the calls awaiting their activation wait resume in the microtasks of the
\* job that settled it
ResumeAwaiters ==
  /\ pc' = [j \in Calls |-> IF pc[j] = "awaitActive" THEN AwaitPc(prom'[j]) ELSE pc[j]]
  /\ result' = [j \in Calls |-> IF pc[j] = "awaitActive" THEN AwaitResult(prom'[j]) ELSE result[j]]

\* the executor of `new Promise` in waitForRegistrationActive(registration),
\* run synchronously for call i on the default registration
WaitForRegistrationActive(i) ==
  LET incoming == IncomingOf(regInstalling, regWaiting)
      branch == WaitBranch(regActive, incoming)
  IN /\ incomingSw' = [incomingSw EXCEPT ![i] = incoming]
     /\ activeAtStart' = [activeAtStart EXCEPT ![i] = (regActive # NoWorker)]
     /\ activatedAt' = activatedAt
     /\ CASE branch = "active" ->
               /\ timer' = [timer EXCEPT ![i] = ClearTimeout("armed")]
               /\ prom' = [prom EXCEPT ![i] = Resolve(PendingPromise)]
               /\ resolveCalls' = [resolveCalls EXCEPT ![i] = @ + 1]
               /\ UNCHANGED <<onstatechange, rejectCalls>>
          [] branch = "observe" ->
               /\ timer' = [timer EXCEPT ![i] = "armed"]
               /\ prom' = [prom EXCEPT ![i] = PendingPromise]
               /\ onstatechange' = [onstatechange EXCEPT ![incoming] = i]
               /\ UNCHANGED <<resolveCalls, rejectCalls>>
          [] OTHER ->
               /\ timer' = [timer EXCEPT ![i] = ClearTimeout("armed")]
               /\ prom' = [prom EXCEPT ![i] = Reject(PendingPromise, ErrorOf(NoIncomingMessage))]
               /\ rejectCalls' = [rejectCalls EXCEPT ![i] = @ + 1]
               /\ UNCHANGED <<onstatechange, resolveCalls>>

\* register() resolves with the default registration: the continuation stores
\* it, requests update() and starts the activation wait, all in one job; when
\* the wait settles at once the call settles in the same job's microtasks
RegisterResolves(i) ==
  /\ pc[i] = "awaitRegister"
  /\ LET ops == AfterRegister(swRegistration, DefaultReg)
     IN /\ log' = [log EXCEPT ![i] = @ \o ops]
        /\ swRegistration' = StoredBy(swRegistration, ops)
  /\ upd' = [upd EXCEPT ![i] = "pending"]
  /\ WaitForRegistrationActive(i)
  /\ pc' = [pc EXCEPT ![i] = AwaitPc(prom'[i])]
  /\ result' = [result EXCEPT ![i] = AwaitResult(prom'[i])]
  /\ registerOutcome' = [registerOutcome EXCEPT ![i] = [state |-> "resolved", reason |-> UndefinedReason]]
  /\ UNCHANGED hostVars

\* mutant: a rejection of update() fails the call
UpdateCatchRethrow(e, r) == IF r.state = "pending" THEN CatchBlock(e) ELSE r

\* the catch handler of update(): the rejection is dropped, the outcome r of
\* the call is what it was
UpdateCatch(e, r) == r

\* update() settles: fulfilled, or rejected and swallowed by its catch handler
UpdateSettles(i, ok) ==
  /\ upd[i] = "pending"
  /\ upd' = [upd EXCEPT ![i] = IF ok THEN "fulfilled" ELSE "rejected"]
  /\ result' = [result EXCEPT ![i] = IF ok THEN @ ELSE UpdateCatch(ErrorOf(UpdateMessage), @)]
  /\ UNCHANGED <<pc, swRegistration, timer, prom, log, registerOutcome, onstatechange>>
  /\ UNCHANGED hostVars
  /\ UNCHANGED histVars

\* mutant: the failed wait rolls the stored handle back
TimerFiresRollingBack(i) ==
  /\ timer[i] = "armed"
  /\ timer' = [timer EXCEPT ![i] = "fired"]
  /\ prom' = [prom EXCEPT ![i] = Reject(@, ErrorOf(TimeoutMessage))]
  /\ rejectCalls' = [rejectCalls EXCEPT ![i] = @ + 1]
  /\ ResumeAwaiters
  /\ swRegistration' = Undefined
  /\ UNCHANGED <<upd, log, registerOutcome, onstatechange>>
  /\ UNCHANGED <<activeAtStart, incomingSw, activatedAt, resolveCalls>>
  /\ UNCHANGED hostVars

\* the timer callback of rejectTimeout runs
TimerFires(i) ==
  /\ timer[i] = "armed"
  /\ timer' = [timer EXCEPT ![i] = "fired"]
  /\ prom' = [prom EXCEPT ![i] = Reject(@, ErrorOf(TimeoutMessage))]
  /\ rejectCalls' = [rejectCalls EXCEPT ![i] = @ + 1]
  /\ ResumeAwaiters
  /\ UNCHANGED <<swRegistration, upd, log, registerOutcome, onstatechange>>
  /\ UNCHANGED <<activeAtStart, incomingSw, activatedAt, resolveCalls>>
  /\ UNCHANGED hostVars

(* ---------------------- the onstatechange handler ----------------------- *)

\* mutant: the handler also accepts 'activating'
IsActivatedOrActivating(s) == s \in {"activating", "activated"}

\* (ev.target as ServiceWorker)?.state === 'activated'
IsActivated(s) == s = "activated"

\* incomingSw.onstatechange after the handler of call i ran for state s
HandlerObserver(i, s) == IF IsActivated(s) THEN NoCall ELSE i

\* mutant: the handler cancels the timer on every state change
HandlerTimerAlwaysCleared(t, s) == ClearTimeout(t)

\* mutant: the handler resolves without cancelling the timer
HandlerTimerKept(t, s) == t

\* rejectTimeout after the handler ran for state s
HandlerTimer(t, s) == IF IsActivated(s) THEN ClearTimeout(t) ELSE t

\* mutant: the handler resolves on every state change
HandlerPromiseAnyState(p, s) == Resolve(p)

\* the promise after the handler ran for state s
HandlerPromise(p, s) == IF IsActivated(s) THEN Resolve(p) ELSE p

\* the host fires statechange on worker w, whose state is now s: the handler
\* in w.onstatechange, if any, runs
Fire(w, s) ==
  LET h == onstatechange[w]
  IN /\ activatedAt' =
          [i \in Calls |->
             IF s = "activated" /\ incomingSw[i] = w /\ timer[i] = "armed"
             THEN "beforeTimeout"
             ELSE activatedAt[i]]
     /\ IF h # NoCall
        THEN /\ onstatechange' = [onstatechange EXCEPT ![w] = HandlerObserver(h, s)]
             /\ timer' = [timer EXCEPT ![h] = HandlerTimer(@, s)]
             /\ prom' = [prom EXCEPT ![h] = HandlerPromise(@, s)]
             /\ resolveCalls' = [resolveCalls EXCEPT ![h] = IF IsActivated(s) THEN @ + 1 ELSE @]
        ELSE UNCHANGED <<onstatechange, timer, prom, resolveCalls>>
     /\ ResumeAwaiters
     /\ UNCHANGED <<swRegistration, upd, log, registerOutcome>>
     /\ UNCHANGED <<activeAtStart, incomingSw, rejectCalls>>

(* ------------------- the host's service worker lifecycle ---------------- *)

\* the next worker the host creates, or NoWorker when all exist
NextWorker ==
  IF \E w \in Workers : swState[w] = "unused"
  THEN CHOOSE w \in Workers :
         /\ swState[w] = "unused"
         /\ \A v \in Workers : swState[v] = "unused" => w <= v
  ELSE NoWorker

\* a new worker starts installing: registration.installing is set
Install ==
  /\ regInstalling = NoWorker
  /\ NextWorker # NoWorker
  /\ regInstalling' = NextWorker
  /\ swState' = [swState EXCEPT ![NextWorker] = "installing"]
  /\ UNCHANGED <<regActive, regWaiting, onstatechange>>
  /\ UNCHANGED callVars
  /\ UNCHANGED histVars

\* the installing worker becomes 'installed' and moves to registration.waiting
Installed ==
  /\ regInstalling # NoWorker
  /\ regWaiting = NoWorker
  /\ regWaiting' = regInstalling
  /\ regInstalling' = NoWorker
  /\ swState' = [swState EXCEPT ![regInstalling] = "installed"]
  /\ UNCHANGED regActive
  /\ Fire(regInstalling, "installed")

\* the waiting worker becomes 'activating' and moves to registration.active
Activating ==
  /\ regWaiting # NoWorker
  /\ regActive = NoWorker
  /\ regActive' = regWaiting
  /\ regWaiting' = NoWorker
  /\ swState' = [swState EXCEPT ![regWaiting] = "activating"]
  /\ UNCHANGED regInstalling
  /\ Fire(regWaiting, "activating")

\* the active worker becomes 'activated'
Activated ==
  /\ regActive # NoWorker
  /\ swState[regActive] = "activating"
  /\ swState' = [swState EXCEPT ![regActive] = "activated"]
  /\ UNCHANGED <<regActive, regInstalling, regWaiting>>
  /\ Fire(regActive, "activated")

\* worker w of the registration becomes 'redundant' (install failed, or it was
\* replaced) and leaves its slot
Redundant(w) ==
  /\ w \in {regActive, regInstalling, regWaiting}
  /\ swState' = [swState EXCEPT ![w] = "redundant"]
  /\ regActive' = IF regActive = w THEN NoWorker ELSE regActive
  /\ regInstalling' = IF regInstalling = w THEN NoWorker ELSE regInstalling
  /\ regWaiting' = IF regWaiting = w THEN NoWorker ELSE regWaiting
  /\ Fire(w, "redundant")

Next ==
  \/ \E i \in Calls : Call(i)
  \/ \E i \in Calls, e \in RegisterRejections : RegisterRejects(i, e)
  \/ \E i \in Calls : RegisterResolves(i)
  \/ \E i \in Calls, ok \in BOOLEAN : UpdateSettles(i, ok)
  \/ \E i \in Calls : TimerFires(i)
  \/ Install
  \/ Installed
  \/ Activating
  \/ Activated
  \/ \E w \in Workers : Redundant(w)

Spec == Init /\ [][Next]_vars

\* the event loop runs every queued job: a timer that stays armed fires
Fairness == \A i \in Calls : WF_vars(TimerFires(i))

FairSpec == Spec /\ Fairness

TypeOK ==
  /\ pc \in [Calls -> {"idle", "awaitRegister", "awaitActive", "done"}]
  /\ swRegistration \in {Undefined, OtherReg, DefaultReg}
  /\ timer \in [Calls -> {"none", "armed", "fired", "cleared"}]
  /\ upd \in [Calls -> {"none", "pending", "fulfilled", "rejected"}]
  /\ onstatechange \in [Workers -> Calls \cup {NoCall}]
  /\ swState \in [Workers -> SwStates \cup {"unused"}]

(* ------------------------------ helpers --------------------------------- *)

\* the error the catch block received in call i: the rejection of register(),
\* else the rejection of the activation wait
UnderlyingError(i) ==
  IF registerOutcome[i].state = "rejected" THEN registerOutcome[i].reason ELSE prom[i].reason

\* call i failed at some step
Failed(i) == registerOutcome[i].state = "rejected" \/ prom[i].state = "rejected"

(* -------------------------------- C1 ------------------------------------ *)

\* C1: every failure of registerDefaultSw (register() rejected, the activation
\* wait timed out, the activation wait found no incoming worker) reaches the
\* caller as a FAILED_DEFAULT_REGISTRATION error whose browserErrorMessage is
\* the message of the underlying error; the timeout error carries the timeout
\* message and the no-incoming error its own; a call that has returned after a
\* failure has rejected; register() is requested only as the first operation
\* of a call, a call performs at most its four operations, and nothing follows
\* a rejected register().
C1_FailuresConverge ==
  \A i \in Calls :
    /\ result[i].state = "rejected" =>
         /\ Failed(i)
         /\ result[i].code = FAILED_DEFAULT_REGISTRATION
         /\ result[i].browserErrorMessage = MessageOf(UnderlyingError(i))
    /\ prom[i].state = "rejected" =>
         prom[i].reason = IF timer[i] = "fired" THEN ErrorOf(TimeoutMessage)
                          ELSE ErrorOf(NoIncomingMessage)
    /\ (pc[i] = "done" /\ Failed(i)) => result[i].state = "rejected"
    /\ \A k \in DOMAIN log[i] : log[i][k].op = "register" => k = 1
    /\ Len(log[i]) <= 4
    /\ registerOutcome[i].state = "rejected" => Len(log[i]) = 1

\* one call failed by timeout and another because register() rejected
C1_Witness ==
  \E i, j \in Calls :
    /\ result[i] = CreateError(FAILED_DEFAULT_REGISTRATION, TimeoutMessage)
    /\ result[j] = CreateError(FAILED_DEFAULT_REGISTRATION, RegisterMessage)

(* -------------------------------- C2 ------------------------------------ *)

\* what call i settles with, from the result of register() and of the wait
OutcomeWithoutUpdate(i) ==
  IF registerOutcome[i].state = "rejected" THEN CatchBlock(registerOutcome[i].reason)
  ELSE IF prom[i].state = "fulfilled" THEN Resolved
  ELSE CatchBlock(prom[i].reason)

\* C2: the outcome of update() never influences registerDefaultSw: the result
\* of a call that returned is determined by the result of register() and of the
\* activation wait, whatever update() did; until it returns the result is
\* pending; the wait has begun whenever update() has been requested, settled or
\* not; and a step in which update() settles changes nothing else.
C2_UpdateOutcomeIgnored ==
  /\ [](\A i \in Calls :
          /\ pc[i] = "done" => result[i] = OutcomeWithoutUpdate(i)
          /\ pc[i] # "done" => result[i] = Pending
          /\ upd[i] # "none" => prom[i].state # "none")
  /\ [][(\E i \in Calls : upd[i] = "pending" /\ upd'[i] # "pending") =>
          UNCHANGED <<pc, result, swRegistration, regActive, regInstalling, regWaiting,
                      swState, onstatechange, timer, prom, log, registerOutcome,
                      activeAtStart, incomingSw, activatedAt, resolveCalls, rejectCalls>>]_vars

\* a call succeeded although its update() rejected, and a wait is in progress
\* while update() has not settled
C2_Witness ==
  /\ \E i \in Calls : upd[i] = "rejected" /\ result[i] = Resolved
  /\ \E j \in Calls : upd[j] = "pending" /\ prom[j].state = "pending"

(* -------------------------------- C3 ------------------------------------ *)

\* C3: when registerDefaultSw resolves (and when the activation wait
\* fulfils), register() resolved and either registration.active was set when
\* the wait began, or the incoming worker chosen then (installing, else
\* waiting) reported 'activated' before the timer fired.
C3_ResolvesOnlyWhenActive ==
  \A i \in Calls :
    (result[i].state = "resolved" \/ prom[i].state = "fulfilled") =>
      /\ registerOutcome[i].state = "resolved"
      /\ \/ activeAtStart[i]
         \/ /\ incomingSw[i] # NoWorker
            /\ activatedAt[i] = "beforeTimeout"
            /\ timer[i] # "fired"

\* one call resolved because the worker was already active, another because
\* the observed worker was activated
C3_Witness ==
  \E i, j \in Calls :
    /\ result[i] = Resolved /\ activeAtStart[i]
    /\ result[j] = Resolved /\ ~activeAtStart[j] /\ activatedAt[j] = "beforeTimeout"

(* -------------------------------- C4 ------------------------------------ *)

\* C4: two calls waiting on the same registration do not interfere: when both
\* chose the same incoming worker (active unset) and that worker reported
\* 'activated' before either timer fired, both waits are fulfilled.
C4_ConcurrentCallsBothResolve ==
  \A i, j \in Calls :
    ( /\ i # j
      /\ ~activeAtStart[i] /\ ~activeAtStart[j]
      /\ incomingSw[i] # NoWorker /\ incomingSw[i] = incomingSw[j]
      /\ activatedAt[i] = "beforeTimeout" /\ activatedAt[j] = "beforeTimeout" )
    => (prom[i].state = "fulfilled" /\ prom[j].state = "fulfilled")

(* -------------------------------- C5 ------------------------------------ *)

\* C5: once register() has settled, registerDefaultSw eventually settles,
\* given that armed timers fire, whatever the worker does.
C5_WaitIsBounded ==
  \A i \in Calls : (pc[i] = "awaitActive") ~> (pc[i] = "done")

\* a call settled by timeout while the worker it observed never left 'installing'
C5_Witness ==
  \E i \in Calls :
    /\ pc[i] = "done"
    /\ timer[i] = "fired"
    /\ incomingSw[i] # NoWorker
    /\ swState[incomingSw[i]] = "installing"
    /\ result[i] = CreateError(FAILED_DEFAULT_REGISTRATION, TimeoutMessage)

(* -------------------------------- C6 ------------------------------------ *)

\* the operations of a call after register() resolved with handle h
OrderedOps(h) ==
  <<LogEntry("register", h), LogEntry("store", h), LogEntry("update", h), LogEntry("wait", h)>>

\* C6: the steps of a call happen in the order register, store, update, wait:
\* the log of a call is a prefix of that sequence, all on the handle register()
\* returned; update() was requested exactly once when the wait has begun; and
\* once a call has requested update() the context holds the stored handle.
C6_FixedOrder ==
  \A i \in Calls :
    /\ log[i] \in {<<>>, <<LogEntry("register", DefaultReg)>>, OrderedOps(DefaultReg)}
    /\ prom[i].state # "none" => (log[i] = OrderedOps(DefaultReg) /\ upd[i] # "none")
    /\ upd[i] # "none" => (swRegistration = DefaultReg /\ log[i] = OrderedOps(DefaultReg))
    /\ upd[i] = "none" => Len(log[i]) <= 1

\* a call has stored the handle, requested update() on it and begun the wait
C6_Witness ==
  \E i \in Calls :
    /\ log[i] = OrderedOps(DefaultReg)
    /\ swRegistration = DefaultReg
    /\ upd[i] = "pending"
    /\ prom[i].state = "pending"

(* -------------------------------- C7 ------------------------------------ *)

\* C7: resolve and reject are never both invoked in one
\* waitForRegistrationActive, whatever the order of the timer and the
\* state-change events.
C7_ExactlyOneOfResolveReject ==
  \A i \in Calls : ~(resolveCalls[i] > 0 /\ rejectCalls[i] > 0)

(* -------------------------------- C8 ------------------------------------ *)

\* C8: once the promise of waitForRegistrationActive has settled, no worker's
\* onstatechange holds the observer that call installed.
C8_ObserverDetachedOnSettlement ==
  \A i \in Calls :
    prom[i].state \in {"fulfilled", "rejected"} =>
      \A w \in Workers : onstatechange[w] # i

(* -------------------------------- C9 ------------------------------------ *)

\* the wait of call i was settled without the timer: registration.active was
\* set, the observer saw 'activated', or there was no incoming worker
SettledWithoutTimeout(i) ==
  \/ prom[i].state = "fulfilled"
  \/ prom[i].state = "rejected" /\ prom[i].reason = ErrorOf(NoIncomingMessage)

C10_AlreadyActive ==
  \A i \in Calls :
    activeAtStart[i] =>
      /\ prom[i].state = "fulfilled"
      /\ timer[i] = "cleared"
      /\ resolveCalls[i] = 1
      /\ rejectCalls[i] = 0
      /\ \A w \in Workers : onstatechange[w] # i
      /\ pc[i] = "done" => result[i] = Resolved

\* active was set and an incoming worker was present; that worker was
\* activated later and the call has resolved
C10_Witness ==
  \E i \in Calls :
    /\ activeAtStart[i]
    /\ incomingSw[i] # NoWorker
    /\ swState[incomingSw[i]] = "activated"
    /\ result[i] = Resolved

(* -------------------------------- C11 ----------------------------------- *)

\* this step runs the executor of call i's activation wait
WaitStarts(i) == prom[i].state = "none" /\ prom'[i].state # "none"

\* the wait of call i began with none of active, installing, waiting set
NoWorkerAtStart(i) ==
  prom[i].state # "none" /\ ~activeAtStart[i] /\ incomingSw[i] = NoWorker

\* C11: the step that begins the wait with none of registration.active,
\* installing and waiting set rejects the promise with the 'No incoming
\* service worker found.' error in that same step and fails the call with that
\* message; from then on the promise stays rejected with that error, reject()
\* was called once and resolve() never, the timer is cancelled (so it never
\* fires), and no worker carries an observer of that call.
C11_NoIncomingWorker ==
  /\ [](\A i \in Calls :
          NoWorkerAtStart(i) =>
            /\ prom[i] = [state |-> "rejected", reason |-> ErrorOf(NoIncomingMessage)]
            /\ timer[i] = "cleared"
            /\ rejectCalls[i] = 1
            /\ resolveCalls[i] = 0
            /\ \A w \in Workers : onstatechange[w] # i
            /\ result[i] = CreateError(FAILED_DEFAULT_REGISTRATION, NoIncomingMessage))
  /\ [][\A i \in Calls :
          ( /\ WaitStarts(i)
            /\ regActive = NoWorker
            /\ regInstalling = NoWorker
            /\ regWaiting = NoWorker ) =>
            /\ NoWorkerAtStart(i)'
            /\ prom'[i].state = "rejected"
            /\ pc'[i] = "done"
            /\ UNCHANGED onstatechange
       ]_vars

\* a call found no worker, and a worker was installed and activated afterwards
C11_Witness ==
  \E i \in Calls :
    /\ NoWorkerAtStart(i)
    /\ pc[i] = "done"
    /\ regActive # NoWorker
    /\ swState[regActive] = "activated"

(* -------------------------------- C12 ----------------------------------- *)

\* this step delivers a statechange event to worker w, which carries the
\* observer of call i while i's promise is pending
ObservedEvent(i, w) ==
  /\ onstatechange[w] = i
  /\ prom[i].state = "pending"
  /\ swState'[w] # swState[w]

C13_InstallingTakesPrecedence ==
  /\ [](\A i \in Calls : \A w \in Workers :
          onstatechange[w] = i => incomingSw[i] = w)
  /\ [][\A i \in Calls :
          /\ ( /\ WaitStarts(i)
               /\ regActive = NoWorker
               /\ regInstalling # NoWorker
               /\ regWaiting # NoWorker ) =>
               /\ incomingSw'[i] = regInstalling
               /\ onstatechange'[regInstalling] = i
               /\ onstatechange'[regWaiting] # i
               /\ prom'[i] = PendingPromise
          /\ (prom[i].state = "pending" /\ prom'[i].state # "pending") =>
               \/ /\ prom'[i].state = "fulfilled"
                  /\ swState[incomingSw[i]] # "activated"
                  /\ swState'[incomingSw[i]] = "activated"
               \/ /\ prom'[i].state = "rejected"
                  /\ timer[i] = "armed"
                  /\ timer'[i] = "fired"
       ]_vars

\* a call observes a worker that is still installing while another worker,
\* which was waiting when the wait began, has become the activated active
\* worker; the call's promise is still pending
C13_Witness ==
  \E i \in Calls : \E v \in Workers :
    /\ prom[i] = PendingPromise
    /\ incomingSw[i] # NoWorker
    /\ incomingSw[i] # v
    /\ regInstalling = incomingSw[i]
    /\ swState[incomingSw[i]] = "installing"
    /\ regActive = v
    /\ swState[v] = "activated"
    /\ onstatechange[v] # i

(* -------------------------------- C14 ----------------------------------- *)

\* call i observes an incoming worker that has not reported 'activated' to it
\* while its timer was armed
ObservingNotActivated(i) ==
  /\ prom[i].state # "none"
  /\ ~activeAtStart[i]
  /\ incomingSw[i] # NoWorker
  /\ activatedAt[i] = "never"

\* message m contains the text of DEFAULT_REGISTRATION_TIMEOUT
ContainsDuration(m) ==
  \E k \in DOMAIN m : m[k] = ToString(DEFAULT_REGISTRATION_TIMEOUT)

\* C14: while the observed incoming worker has not reported 'activated' and the
\* timer has not fired, the promise is pending with the timer armed; the step
\* in which the timer fires on a pending promise rejects it with 'Service
\* worker not registered after <DEFAULT_REGISTRATION_TIMEOUT> ms', a message
\* that contains the duration, and the call fails with that message.
C14_PendingUntilTimeout ==
  /\ [](\A i \in Calls :
          (ObservingNotActivated(i) /\ timer[i] # "fired") =>
            prom[i] = PendingPromise /\ timer[i] = "armed")
  /\ [][\A i \in Calls :
          (ObservingNotActivated(i) /\ timer[i] = "armed" /\ timer'[i] = "fired") =>
            /\ prom'[i].state = "rejected"
            /\ prom'[i].reason.defined
            /\ ContainsDuration(prom'[i].reason.message)
            /\ prom'[i].reason.message[1] = "Service worker not registered after "
            /\ pc[i] = "awaitActive" =>
                 /\ result'[i].code = FAILED_DEFAULT_REGISTRATION
                 /\ ContainsDuration(result'[i].browserErrorMessage)
       ]_vars

\* a call whose observed worker got as far as 'activating' was rejected by the
\* timer with the message that carries the duration
C14_Witness ==
  \E i \in Calls :
    /\ ObservingNotActivated(i)
    /\ timer[i] = "fired"
    /\ swState[incomingSw[i]] = "activating"
    /\ prom[i] = [state |-> "rejected", reason |-> ErrorOf(TimeoutMessage)]
    /\ ContainsDuration(result[i].browserErrorMessage)

(* -------------------------------- C15 ----------------------------------- *)

\* this step delivers the rejection of register() to call i
RegisterRejected(i) ==
  registerOutcome[i].state # "rejected" /\ registerOutcome'[i].state = "rejected"

\* C15: the step in which register() rejects changes neither
\* messaging.swRegistration nor any update request, timer, promise, observer
\* or the registration and its workers; and a call whose register() rejected
\* has requested no update(), has no timer and no activation promise, has
\* performed no operation but register() and is observed by no worker.
C15_RegisterFailureHasNoEffect ==
  /\ [](\A i \in Calls :
          registerOutcome[i].state = "rejected" =>
            /\ upd[i] = "none"
            /\ timer[i] = "none"
            /\ prom[i] = NoPromise
            /\ log[i] = <<LogEntry("register", DefaultReg)>>
            /\ incomingSw[i] = NoWorker
            /\ \A w \in Workers : onstatechange[w] # i)
  /\ [][(\E i \in Calls : RegisterRejected(i)) =>
          /\ UNCHANGED <<swRegistration, upd, timer, prom, onstatechange, log>>
          /\ UNCHANGED hostVars
       ]_vars

\* both calls failed in register(): the handle stored before them is still there
C15_Witness ==
  /\ swRegistration = OtherReg
  /\ \A i \in Calls :
       /\ pc[i] = "done"
       /\ registerOutcome[i].state = "rejected"
       /\ result[i].code = FAILED_DEFAULT_REGISTRATION

(* -------------------------------- C16 ----------------------------------- *)

\* this step delivers the resolution of register() to call i
RegisterResolved(i) ==
  registerOutcome[i].state # "resolved" /\ registerOutcome'[i].state = "resolved"

\* C16: from the moment register() resolved for a call,
\* messaging.swRegistration holds the returned registration, in particular
\* when the call has settled, whether it resolved or failed with
\* FAILED_DEFAULT_REGISTRATION after a timeout or for want of an incoming
\* worker; and messaging.swRegistration is written only in the step that
\* delivers a resolution of register(), with the returned registration.
C16_HandleKeptOnFailedWait ==
  /\ [](\A i \in Calls :
          registerOutcome[i].state = "resolved" =>
            /\ swRegistration = DefaultReg
            /\ pc[i] = "done" =>
                 \/ result[i] = Resolved
                 \/ result[i] = CreateError(FAILED_DEFAULT_REGISTRATION, TimeoutMessage)
                 \/ result[i] = CreateError(FAILED_DEFAULT_REGISTRATION, NoIncomingMessage))
  /\ [][swRegistration' # swRegistration =>
          /\ \E i \in Calls : RegisterResolved(i)
          /\ swRegistration' = DefaultReg
       ]_vars

\* one call failed for want of an incoming worker and another by timeout, and
\* the context holds the registration that register() returned
C16_Witness ==
  \E i, j \in Calls :
    /\ registerOutcome[i].state = "resolved"
    /\ registerOutcome[j].state = "resolved"
    /\ result[i] = CreateError(FAILED_DEFAULT_REGISTRATION, NoIncomingMessage)
    /\ result[j] = CreateError(FAILED_DEFAULT_REGISTRATION, TimeoutMessage)
    /\ swRegistration = DefaultReg

====
